---- MODULE Spec2Model ----
(***************************************************************************)
(* Model of PubSubToGCS_Compression.py: a streaming pipeline that reads    *)
(* Pub/Sub messages, windows them into fixed intervals, gives each a       *)
(* random shard key, groups by (window, key) and writes every group as one *)
(* (compressed) object to Cloud Storage.                                   *)
(*                                                                         *)
(* Text (str) is a sequence of code points, bytes a sequence of 0..255.    *)
(* Time is in whole seconds since the epoch.  A compressed stream is the   *)
(* record of its container format and of the bytes it decompresses to (the *)
(* gzip container also carries the header's MTIME field).                  *)
(***************************************************************************)
EXTENDS Integers, Sequences, FiniteSets, Bags

\* ------------------------------------------------------------------ bounds
MaxMsgs == 2
MaxShards == 2
MaxFailures == 1

\* Values of --window_interval_sec tried (0 is a configuration error).
WindowSizes == {0, 20, 60}
\* Values of --compression_type tried ("lz4" is not one of the choices).
CompressionMethods == {"gzip", "deflate", "bz2", "uncompressed"}
CompressionTypes == CompressionMethods \cup {"lz4"}
\* Payloads published: "", "é\n" (é is two bytes of UTF-8) and a byte that is
\* not UTF-8.
Payloads == {<< >>, <<195, 169, 10>>, <<255>>}
\* Publish times: one before the epoch and two in the same minute after it.
Times == {-5, 5, 25}
\* Values the watermark takes after its initial one; the last is past the end
\* of every window.
WatermarkSteps == {20, 60}
MaxWatermark == CHOOSE t \in WatermarkSteps : \A u \in WatermarkSteps : u <= t
\* The watermark before any element is read: below every publish time.
MinWatermark == 0 - 86400
\* The second the workers' clocks show when a group is first written, and the
\* seconds they may show when a write is retried.
ClockTicks == {1, 2}
FirstTick == CHOOSE t \in ClockTicks : \A u \in ClockTicks : t <= u

OutputDirectory == "gs://bucket/dir"
NL == 10

VARIABLES
    cfg,        \* run()'s arguments: window_interval_sec, num_shards, compression_type
    pc,         \* "start", "running" or "error"
    inflight,   \* bag of the messages the topic has to deliver again
    watermark,  \* the runner's estimate of event-time progress
    decoded,    \* number of elements DecodeMessage.process has decoded
    keyed,      \* bag of the elements that went through "Add key", each with
                \* its message, body, window and key
    buffers,    \* GroupByKey state: <<window start, key>> -> the bodies grouped so far
    emitted,    \* <<window start, key>> -> number of times GroupByKey emitted the group
    panes,      \* the (key, batch) groups emitted, with their window
    calls,      \* history of WriteToGCS.process: its inputs and what it wrote
    storage,    \* the bucket: filename -> object
    failures    \* number of failures (retried writes, restarts) so far

vars == <<cfg, pc, inflight, watermark, decoded, keyed, buffers, emitted,
          panes, calls, storage, failures>>

\* ------------------------------------------------------------- text, bytes
\* str.encode() (UTF-8) of one code point below U+0800.
EncodeChar(cp) ==
    IF cp < 128 THEN <<cp>> ELSE <<192 + (cp \div 64), 128 + (cp % 64)>>

RECURSIVE Encode(_)
Encode(s) == IF s = << >> THEN << >> ELSE EncodeChar(Head(s)) \o Encode(Tail(s))

\* bytes.decode("utf-8"), for one- and two-byte sequences; ok is FALSE where
\* Python raises UnicodeDecodeError.
RECURSIVE Utf8Decode(_)
Utf8Decode(b) ==
    IF b = << >> THEN [ok |-> TRUE, str |-> << >>]
    ELSE IF b[1] < 128
         THEN LET r == Utf8Decode(Tail(b))
              IN  [ok |-> r.ok, str |-> <<b[1]>> \o r.str]
         ELSE IF /\ b[1] >= 194 /\ b[1] <= 223 /\ Len(b) >= 2
                 /\ b[2] >= 128 /\ b[2] <= 191
              THEN LET r == Utf8Decode(Tail(Tail(b)))
                   IN  [ok |-> r.ok,
                        str |-> <<(b[1] - 192) * 64 + (b[2] - 128)>> \o r.str]
              ELSE [ok |-> FALSE, str |-> << >>]

\* DecodeMessage.process
DecodeMessage(element) == Utf8Decode(element)

\* ---------------------------------------------------------------- windows
\* As FixedWindowsAssign, with a remainder that takes the sign of t.
FixedWindowsAssignTruncated(t, size) ==
    LET r     == IF t >= 0 THEN t % size ELSE 0 - ((0 - t) % size)
        start == t - r
    IN  [start |-> start, end |-> start + size]

\* FixedWindows(size).assign(timestamp), offset 0.
FixedWindowsAssign(t, size) ==
    LET start == t - (t % size)
    IN  [start |-> start, end |-> start + size]

\* FixedWindows.__init__ raises ValueError unless the size is strictly positive.
FixedWindowsValid(size) == size > 0

\* random.randint(a, b): the integers N with a <= N <= b; none when a > b
\* (ValueError: empty range).
RandInt(a, b) == a..b

\* As AddKey, with num_shards as the upper end of the range.
AddKeyInclusive(num_shards) == RandInt(0, num_shards)

\* The keys the "Add key" step may give an element.
AddKey(num_shards) == RandInt(0, num_shards - 1)

\* ------------------------------------------------------- WriteToGCS.process
\* datetime.strftime("%Y/%m/%d") of t seconds since the epoch, UTC: the civil
\* date of the day t falls in, as <<year, month, day>>.
DateDir(t) ==
    LET z   == (t \div 86400) + 719468
        era == z \div 146097
        doe == z - era * 146097
        yoe == (doe - (doe \div 1460) + (doe \div 36524) - (doe \div 146096)) \div 365
        doy == doe - (365 * yoe + (yoe \div 4) - (yoe \div 100))
        mp  == (5 * doy + 2) \div 153
        d   == doy - ((153 * mp + 2) \div 5) + 1
        m   == IF mp < 10 THEN mp + 3 ELSE mp - 9
        y   == yoe + era * 400 + (IF m <= 2 THEN 1 ELSE 0)
    IN  <<y, m, d>>

\* datetime.strftime("%H:%M") of t, UTC, as <<hour, minute>>.
TsFormat(t) ==
    LET s == t % 86400
    IN  <<s \div 3600, (s % 3600) \div 60>>

\* The suffix appended to the filename for a compression method.
Suffix(method) ==
    IF method = "gzip" THEN ".gz"
    ELSE IF method = "deflate" THEN ".zlib"
    ELSE IF method = "bz2" THEN ".bz2"
    ELSE ""

\* As MimeType, without the assignment of the deflate branch.
MimeTypeDeflateDefault(method) ==
    IF method = "gzip" THEN "application/gzip"
    ELSE IF method = "deflate" THEN "application/octet-stream"
    ELSE IF method = "bz2" THEN "application/x-bzip2"
    ELSE "application/json"

\* The mime_type the object is opened with.
MimeType(method) ==
    IF method = "gzip" THEN "application/gzip"
    ELSE IF method = "deflate" THEN "application/zlib"
    ELSE IF method = "bz2" THEN "application/x-bzip2"
    ELSE "application/json"

\* f"{dir}/{date_dir}/logs-{window_start}-{window_end}-{shard_id}.{suffix}"
\* followed by the method's suffix: the fields the f-string formats, each
\* formatted injectively.
Filename(dir, window, shard_id, method) ==
    [dir   |-> dir,
     date  |-> DateDir(window.start),
     start |-> TsFormat(window.start),
     end   |-> TsFormat(window.end),
     shard |-> shard_id,
     ext   |-> "json" \o Suffix(method)]

\* As AllMessages, with the newline between the bodies and not after each.
RECURSIVE AllMessagesJoined(_)
AllMessagesJoined(batch) ==
    IF batch = << >> THEN << >>
    ELSE IF Tail(batch) = << >> THEN Encode(Head(batch))
    ELSE Encode(Head(batch)) \o <<NL>> \o AllMessagesJoined(Tail(batch))

\* b"".join([f"{message_body}\n".encode() for message_body in batch]), also
\* the bytes the successive write() calls of the other two branches produce.
RECURSIVE AllMessages(_)
AllMessages(batch) ==
    IF batch = << >> THEN << >>
    ELSE Encode(Head(batch)) \o <<NL>> \o AllMessages(Tail(batch))

\* gzip.GzipFile(fileobj=f, mode="wb"): one member; mtime is not given, so the
\* header carries the time of the call.
GzipStream(data, now) == [format |-> "gzip", mtime |-> now, data |-> data]
\* zlib.compress(data), bz2.compress(data)
ZlibCompress(data) == [format |-> "zlib", mtime |-> 0, data |-> data]
Bz2Compress(data)  == [format |-> "bz2", mtime |-> 0, data |-> data]
\* bytes written as they are
Raw(data) == [format |-> "raw", mtime |-> 0, data |-> data]

\* What the with-block writes to f.
EncodeBatch(method, batch, now) ==
    IF method = "gzip" THEN GzipStream(AllMessages(batch), now)
    ELSE IF method = "deflate" THEN ZlibCompress(AllMessages(batch))
    ELSE IF method = "bz2" THEN Bz2Compress(AllMessages(batch))
    ELSE Raw(AllMessages(batch))

\* As Process, with the time of the call in the filename.
ProcessStamped(method, window, shard_id, batch, now) ==
    [window    |-> window,
     shard_id  |-> shard_id,
     batch     |-> batch,
     filename  |-> [Filename(OutputDirectory, window, shard_id, method)
                        EXCEPT !.dir = <<OutputDirectory, now>>],
     mime_type |-> MimeType(method),
     content   |-> EncodeBatch(method, batch, now),
     attempt   |-> 1]

\* One call of WriteToGCS.process: the object it creates and where.
Process(method, window, shard_id, batch, now) ==
    [window    |-> window,
     shard_id  |-> shard_id,
     batch     |-> batch,
     filename  |-> Filename(OutputDirectory, window, shard_id, method),
     mime_type |-> MimeType(method),
     content   |-> EncodeBatch(method, batch, now),
     attempt   |-> 1]

\* ------------------------------------------------------ reading an object
\* gzip.decompress, zlib.decompress, bz2.decompress, or the bytes themselves.
Decompress(method, content) ==
    LET want == IF method = "gzip" THEN "gzip"
                ELSE IF method = "deflate" THEN "zlib"
                ELSE IF method = "bz2" THEN "bz2" ELSE "raw"
    IN  [ok |-> content.format = want, data |-> content.data]

\* The lines of data: the bytes before each newline, and what follows the
\* last newline when that is not empty.
RECURSIVE SplitLines(_, _)
SplitLines(data, line) ==
    IF data = << >> THEN (IF line = << >> THEN << >> ELSE <<line>>)
    ELSE IF Head(data) = NL THEN <<line>> \o SplitLines(Tail(data), << >>)
    ELSE SplitLines(Tail(data), Append(line, Head(data)))

\* The record bodies read back from an object.
ReadBack(method, content) ==
    LET d     == Decompress(method, content)
        lines == SplitLines(d.data, << >>)
    IN  [ok      |-> d.ok /\ \A i \in 1..Len(lines) : Utf8Decode(lines[i]).ok,
         records |-> [i \in 1..Len(lines) |-> Utf8Decode(lines[i]).str]]

\* ------------------------------------------------------------------ state
EmptyMap == [x \in {} |-> x]
Put(f, k, v) == [x \in DOMAIN f \cup {k} |-> IF x = k THEN v ELSE f[x]]

\* The arguments run() is started with: no shard, one shard or MaxShards.
Init ==
    /\ cfg \in [window_interval_sec : WindowSizes,
                num_shards : {0, 1, MaxShards},
                compression_type : CompressionTypes]
    /\ pc = "start"
    /\ inflight = EmptyBag
    /\ watermark = MinWatermark
    /\ decoded = 0
    /\ keyed = EmptyBag
    /\ buffers = EmptyMap
    /\ emitted = EmptyMap
    /\ panes = {}
    /\ calls = {}
    /\ storage = EmptyMap
    /\ failures = 0

\* run(): the pipeline is built (GroupMessagesByFixedWindows.expand builds
\* FixedWindows(self.window_size)) and started. Nothing else looks at the
\* arguments here.
Run ==
    /\ pc = "start"
    /\ pc' = IF FixedWindowsValid(cfg.window_interval_sec) THEN "running" ELSE "error"
    /\ UNCHANGED <<cfg, inflight, watermark, decoded, keyed, buffers,
                   emitted, panes, calls, storage, failures>>

\* GroupMessagesByFixedWindows.expand on one element: window, decode, key,
\* group. An element whose window the watermark has passed is dropped by
\* GroupByKey (no allowed lateness is set).
Expand(m) ==
    LET window == FixedWindowsAssign(m.ts, cfg.window_interval_sec)
        body   == DecodeMessage(m.payload)
        keys   == AddKey(cfg.num_shards)
    IN  IF ~body.ok
        THEN \* UnicodeDecodeError
             /\ pc' = "error"
             /\ UNCHANGED <<decoded, keyed, buffers>>
        ELSE IF keys = {}
        THEN \* ValueError from random.randint
             /\ pc' = "error"
             /\ decoded' = decoded + 1
             /\ UNCHANGED <<keyed, buffers>>
        ELSE \E key \in keys :
             LET late == watermark >= window.end
                 k    == <<window.start, key>>
                 old  == IF k \in DOMAIN buffers THEN buffers[k] ELSE << >>
             IN  /\ pc' = pc
                 /\ decoded' = decoded + 1
                 /\ keyed' = keyed (+) SetToBag({[msg |-> m, body |-> body.str,
                                                  window |-> window, key |-> key,
                                                  late |-> late]})
                 /\ buffers' = IF late THEN buffers
                               ELSE Put(buffers, k, Append(old, body.str))

\* io.ReadFromPubSub delivers a message published on the topic, with its
\* publish time, and the pipeline processes it up to GroupByKey.
Deliver(payload, ts) ==
    /\ pc = "running"
    /\ BagCardinality(keyed) + BagCardinality(inflight) < MaxMsgs
    /\ Expand([payload |-> payload, ts |-> ts])
    /\ UNCHANGED <<cfg, inflight, watermark, emitted, panes, calls, storage, failures>>

\* As Fires, at the start of the window.
FiresAtStart(k, wm) == wm >= k[1]

\* GroupByKey under the default trigger: the group of a (window, key) is
\* emitted when the watermark passes the end of the window.
Fires(k, wm) == wm >= k[1] + cfg.window_interval_sec

\* The runner moves the watermark forward; GroupByKey emits the groups whose
\* window it passes and forgets them.
AdvanceWatermark(t) ==
    /\ pc = "running"
    /\ t > watermark
    /\ watermark' = t
    /\ LET fired == {k \in DOMAIN buffers : Fires(k, t)}
       IN  /\ panes' = panes \cup
                 {[window |-> [start |-> k[1],
                               end |-> k[1] + cfg.window_interval_sec],
                   key |-> k[2], batch |-> buffers[k], writes |-> 0] : k \in fired}
           /\ buffers' = [k \in DOMAIN buffers \ fired |-> buffers[k]]
           /\ emitted' = [k \in DOMAIN emitted \cup fired |->
                            (IF k \in DOMAIN emitted THEN emitted[k] ELSE 0)
                            + (IF k \in fired THEN 1 ELSE 0)]
    /\ UNCHANGED <<cfg, pc, inflight, decoded, keyed, calls, storage, failures>>

\* ParDo(WriteToGCS(...)) on one emitted (key, batch): process() creates the
\* object, replacing any object of the same name. The first write of every
\* group happens within the second FirstTick; a retry may come later.
DoWrite(p, now) ==
    LET call == Process(cfg.compression_type, p.window, p.key, p.batch, now)
    IN  /\ calls' = calls \cup {[call EXCEPT !.attempt = p.writes + 1]}
        /\ storage' = Put(storage, call.filename,
                          [mime_type |-> call.mime_type, content |-> call.content])
        /\ panes' = (panes \ {p}) \cup {[p EXCEPT !.writes = p.writes + 1]}

Write(p) ==
    /\ pc = "running"
    /\ p \in panes
    /\ p.writes = 0
    /\ DoWrite(p, FirstTick)
    /\ UNCHANGED <<cfg, pc, inflight, watermark, decoded, keyed, buffers,
                   emitted, failures>>

\* The runner retries a bundle whose write had gone through: process() runs
\* again on the same (key, batch).
RetryWrite(p) ==
    /\ pc = "running"
    /\ p \in panes
    /\ p.writes > 0
    /\ failures < MaxFailures
    /\ failures' = failures + 1
    /\ \E now \in ClockTicks : DoWrite(p, now)
    /\ UNCHANGED <<cfg, pc, inflight, watermark, decoded, keyed, buffers,
                   emitted>>

Next ==
    \/ Run
    \/ \E payload \in Payloads, ts \in Times : Deliver(payload, ts)
    \/ \E t \in WatermarkSteps : AdvanceWatermark(t)
    \/ \E p \in panes : Write(p)
    \/ \E p \in panes : RetryWrite(p)

Spec == Init /\ [][Next]_vars

\* ---------------------------------------------------------------- replay
\* The pipeline fails after some objects were written and is started again:
\* what it held in memory is lost, the messages it had read are delivered
\* again (they were not acknowledged), the bucket keeps its objects.
Restart ==
    /\ pc = "running"
    /\ calls # {}
    /\ failures < MaxFailures
    /\ failures' = failures + 1
    /\ inflight' = inflight (+) BagOfAll(LAMBDA e : e.msg, keyed)
    /\ watermark' = MinWatermark
    /\ keyed' = EmptyBag
    /\ buffers' = EmptyMap
    /\ panes' = {}
    /\ UNCHANGED <<cfg, pc, decoded, emitted, calls, storage>>

\* A message is delivered again and processed.
Redeliver(m) ==
    /\ pc = "running"
    /\ BagIn(m, inflight)
    /\ inflight' = inflight (-) SetToBag({m})
    /\ Expand(m)
    /\ UNCHANGED <<cfg, watermark, emitted, panes, calls, storage, failures>>

NextReplay ==
    \/ Next
    \/ Restart
    \/ \E m \in BagToSet(inflight) : Redeliver(m)

SpecReplay == Init /\ [][NextReplay]_vars

\* ------------------------------------------------------------ vocabulary
\* The configuration is one the command line accepts.
ConfigValid ==
    /\ cfg.compression_type \in CompressionMethods
    /\ cfg.num_shards > 0
    /\ cfg.window_interval_sec > 0

\* Everything delivered has been processed, every window has closed and every
\* emitted group has been written.
Done ==
    /\ pc = "running"
    /\ watermark = MaxWatermark
    /\ inflight = EmptyBag
    /\ buffers = EmptyMap
    /\ \A p \in panes : p.writes > 0

\* The sum of f over S.
RECURSIVE SumOver(_, _)
SumOver(f, S) ==
    IF S = {} THEN 0
    ELSE LET x == CHOOSE y \in S : TRUE IN f[x] + SumOver(f, S \ {x})

Count(seq, v) == Cardinality({i \in DOMAIN seq : seq[i] = v})

\* str.split("\n"): the pieces of a body between its newlines.
RECURSIVE SplitBody(_, _)
SplitBody(s, piece) ==
    IF s = << >> THEN <<piece>>
    ELSE IF Head(s) = NL THEN <<piece>> \o SplitBody(Tail(s), << >>)
    ELSE SplitBody(Tail(s), Append(piece, Head(s)))

\* The pieces of all the bodies of a batch, in order.
RECURSIVE BatchLines(_)
BatchLines(batch) ==
    IF batch = << >> THEN << >>
    ELSE SplitBody(Head(batch), << >>) \o BatchLines(Tail(batch))

NoNewline(batch) == \A i \in DOMAIN batch : \A j \in DOMAIN batch[i] : batch[i][j] # NL

\* The elements that were grouped (not dropped as late) under a window and key.
OnTime(start, key) ==
    {e \in BagToSet(keyed) : e.window.start = start /\ e.key = key /\ ~e.late}
OnTimePairs == {<<e.window.start, e.key>> : e \in {x \in BagToSet(keyed) : ~x.late}}
\* How many of them have a given body.
Grouped(start, key, body) ==
    LET S == {e \in OnTime(start, key) : e.body = body}
    IN  SumOver([e \in S |-> CopiesIn(e, keyed)], S)
CallsOf(start, key) == {c \in calls : c.window.start = start /\ c.shard_id = key}

\* ------------------------------------------------------------------ claims
\* C1: any two distinct (window, shard) pairs written in one run get distinct
\* filenames from WriteToGCS.process, whatever the positive window size.
PathUniqueness ==
    \A c1, c2 \in calls :
        (c1.window # c2.window \/ c1.shard_id # c2.shard_id)
            => c1.filename # c2.filename

\* C2: under a configuration that is not valid (unknown compression type,
\* num_shards <= 0 or window_interval_sec <= 0) no record is ever decoded, keyed
\* or grouped and no object is ever written.
ConfigErrorsFatal ==
    ~ConfigValid =>
        /\ decoded = 0
        /\ keyed = EmptyBag
        /\ buffers = EmptyMap
        /\ calls = {}
        /\ storage = EmptyMap

\* C3 as stated: for each of the four methods, decompressing what process()
\* wrote and splitting it on newlines gives back the batch, record for record.
RoundTrip ==
    \A c \in calls :
        cfg.compression_type \in CompressionMethods =>
            LET r == ReadBack(cfg.compression_type, c.content)
            IN  r.ok /\ r.records = c.batch

\* C3 as amended: what is read back is, in order, the pieces of the bodies
\* between their newlines: the batch itself when no body holds a newline (empty
\* bodies included), and n + 1 records for a body that holds n newlines.
RoundTripLines ==
    \A c \in calls :
        cfg.compression_type \in CompressionMethods =>
            LET r == ReadBack(cfg.compression_type, c.content)
            IN  /\ r.ok
                /\ r.records = BatchLines(c.batch)
                /\ NoNewline(c.batch) => r.records = c.batch

\* C3 witness: a batch of two different bodies, one of them empty, was written.
RoundTripWitness ==
    \E c \in calls :
        /\ cfg.compression_type \in CompressionMethods
        /\ Len(c.batch) = 2
        /\ c.batch[1] # c.batch[2]
        /\ \E i \in DOMAIN c.batch : c.batch[i] = << >>

\* Two calls of process() are the write of a group and its retry.
IsRetryOf(c1, c2) ==
    /\ c1.window = c2.window
    /\ c1.shard_id = c2.shard_id
    /\ c1.batch = c2.batch
    /\ c1.attempt < c2.attempt

\* C4 as stated: a retried write leaves one object at the batch's filename,
\* with the filename, content type and bytes of the first write.
IdempotentOverwrite ==
    \A c1, c2 \in calls :
        IsRetryOf(c1, c2) =>
            /\ c2.filename = c1.filename
            /\ c2.mime_type = c1.mime_type
            /\ c2.content = c1.content

\* C4 as amended: a retried write goes to the same filename with the same
\* content type and the same decompressed bytes; the written bytes are the same
\* for deflate, bz2 and uncompressed, and for gzip they are the same but for the
\* modification time in the gzip header.
IdempotentUpToMtime ==
    \A c1, c2 \in calls :
        IsRetryOf(c1, c2) =>
            /\ c2.filename = c1.filename
            /\ c2.mime_type = c1.mime_type
            /\ c2.content.format = c1.content.format
            /\ c2.content.data = c1.content.data
            /\ cfg.compression_type # "gzip" => c2.content = c1.content
            /\ c2.filename \in DOMAIN storage

\* C4 witness: a write was retried in a later second and its object is stored.
IdempotentWitness ==
    \E c1, c2 \in calls :
        /\ IsRetryOf(c1, c2)
        /\ c1.content.mtime # c2.content.mtime
        /\ storage[c2.filename].content = c2.content

\* The objects stored for a window: those whose filename carries its date and
\* its start and end times.
ObjectsOf(window) ==
    {f \in DOMAIN storage :
        /\ f.date = DateDir(window.start)
        /\ f.start = TsFormat(window.start)
        /\ f.end = TsFormat(window.end)}

\* How many records equal to line the objects stored for a window hold.
Stored(window, line) ==
    LET S == ObjectsOf(window)
    IN  SumOver([f \in S |-> Count(ReadBack(cfg.compression_type,
                                            storage[f].content).records, line)], S)
\* How many pieces equal to line the bodies of the window's elements have.
Sent(window, line) ==
    LET S == {x \in BagToSet(keyed) : x.window = window}
    IN  SumOver([x \in S |-> CopiesIn(x, keyed) * Count(SplitBody(x.body, << >>), line)], S)

\* The windows that got elements are told apart by what a filename keeps of them.
WindowNamesDistinct ==
    \A e1, e2 \in BagToSet(keyed) :
        e1.window # e2.window =>
            <<DateDir(e1.window.start), TsFormat(e1.window.start), TsFormat(e1.window.end)>>
            # <<DateDir(e2.window.start), TsFormat(e2.window.start), TsFormat(e2.window.end)>>

\* C5: after a restart, once the replay is complete, the objects stored for a
\* window hold every record of the window exactly once in total (stated for
\* runs where the windows are told apart by their filenames and no element came
\* late, and counting a body by its lines).
SafeReplay ==
    (/\ Done
     /\ ConfigValid
     /\ WindowNamesDistinct
     /\ \A e \in BagToSet(keyed) : ~e.late)
    => \A e \in BagToSet(keyed) :
          \A i \in DOMAIN SplitBody(e.body, << >>) :
             LET line == SplitBody(e.body, << >>)[i]
             IN  Stored(e.window, line) = Sent(e.window, line)

\* C6: for each of the four methods the object written has the filename
\* ending, the content type and the encoding of that same method, and no object
\* is ever written with the default content type.
DispatchTable ==
    \A c \in calls :
        LET m == cfg.compression_type
            row == <<c.filename.ext, c.mime_type, c.content.format>>
        IN  /\ c.mime_type # "application/octet-stream"
            /\ storage[c.filename].mime_type # "application/octet-stream"
            /\ m = "gzip" => row = <<"json.gz", "application/gzip", "gzip">>
            /\ m = "deflate" => row = <<"json.zlib", "application/zlib", "zlib">>
            /\ m = "bz2" => row = <<"json.bz2", "application/x-bzip2", "bz2">>
            /\ m = "uncompressed" => row = <<"json", "application/json", "raw">>

\* C6 witness: an object was written under deflate.
DispatchWitness ==
    \E c \in calls : cfg.compression_type = "deflate" /\ c.filename \in DOMAIN storage

\* Indexes j of the windows [j*w, j*w + w) that cover the publish times.
TilingIndexes == -3..3

\* C7: an element with timestamp t is put in the window
\* [floor(t/w)*w, floor(t/w)*w + w), which holds t, and no other window of the
\* tiling holds t.
WindowAssignment ==
    \A e \in BagToSet(keyed) :
        LET t == e.msg.ts
            w == cfg.window_interval_sec
        IN  /\ e.window.start = (t \div w) * w
            /\ e.window.end = e.window.start + w
            /\ e.window.start <= t /\ t < e.window.end
            /\ \A j \in TilingIndexes :
                  (j * w <= t /\ t < j * w + w) => j * w = e.window.start

\* C7 witness: elements published before and after the epoch were put in
\* different windows.
WindowAssignmentWitness ==
    \E e1, e2 \in BagToSet(keyed) :
        e1.msg.ts < 0 /\ e2.msg.ts > 0 /\ e1.window # e2.window

\* C8: the key given to an element is an integer k with 0 <= k < num_shards,
\* and it is 0 when num_shards = 1.
ShardKeyRange ==
    \A e \in BagToSet(keyed) :
        /\ e.key \in Int
        /\ 0 <= e.key /\ e.key < cfg.num_shards
        /\ cfg.num_shards = 1 => e.key = 0

\* C8 witness: with several shards an element got the largest key.
ShardKeyWitness ==
    \E e \in BagToSet(keyed) : cfg.num_shards > 1 /\ e.key = cfg.num_shards - 1

\* C9: in a run without failures every (window, shard) group is emitted at most
\* once and only when the watermark has passed the end of its window; a group
\* is written at most once, only if it was emitted and got a record; and when
\* the run is done every group that got a record has been written exactly once.
EmissionOnce ==
    failures = 0 =>
        /\ \A k \in DOMAIN emitted :
              /\ emitted[k] <= 1
              /\ watermark >= k[1] + cfg.window_interval_sec
        /\ \A p \in panes : watermark >= p.window.end
        /\ \A c \in calls :
              /\ Cardinality(CallsOf(c.window.start, c.shard_id)) = 1
              /\ <<c.window.start, c.shard_id>> \in DOMAIN emitted
              /\ <<c.window.start, c.shard_id>> \in OnTimePairs
        /\ Done => \A k \in OnTimePairs : Cardinality(CallsOf(k[1], k[2])) = 1

\* C9 witness: a run without failures is done, two groups were written and
\* some shard of a written window got no record and no object.
EmissionWitness ==
    /\ failures = 0
    /\ Done
    /\ Cardinality(calls) = 2
    /\ \E c \in calls, key \in 0..(cfg.num_shards - 1) :
          CallsOf(c.window.start, key) = {}

\* C10: in a run without failures and with a valid configuration, when the run
\* is done every element that was not late has its body in the object of its own
\* window and key, as many times as it was delivered, and nowhere else.
RecordConservation ==
    (failures = 0 /\ ConfigValid /\ Done) =>
        \A k \in OnTimePairs :
            \E c \in calls :
                /\ c.window.start = k[1] /\ c.shard_id = k[2]
                /\ \A i \in DOMAIN c.batch :
                      Count(c.batch, c.batch[i]) = Grouped(k[1], k[2], c.batch[i])
                /\ \A e \in OnTime(k[1], k[2]) : Count(c.batch, e.body) > 0
                /\ c.filename \in DOMAIN storage
                /\ storage[c.filename].content.data = AllMessages(c.batch)

====
